---- MODULE Spec2Model ----
(***************************************************************************)
(* Model of the mailbox retrieval and thread-reconstruction engine of      *)
(* src/dataExtraction.py (customEmailDataExtractor._fetch_emails and the   *)
(* nested fetch_folder_emails).  The IMAP session is the environment: the  *)
(* outcome of every connect/login/list/select/search/fetch/logout call is  *)
(* chosen nondeterministically among the outcomes the code distinguishes   *)
(* (OK status, non-OK status, malformed response, exception).              *)
(***************************************************************************)
EXTENDS Integers, Sequences, FiniteSets, TLC

(***************************************************************************)
(* Bounds and value domains                                                *)
(***************************************************************************)
\* largest number of message ids one search returns
MaxMsgs == 2

Gmail == "imap.gmail.com"
OtherServer == "imap.example.org"
\* servers the extractor may be constructed with
Servers == {Gmail, OtherServer}

\* a Date header: hdr is "ok" (it parses to the instant at), "bad" (the
\* parser raises) or "none" (no Date header)
DateHeader(hdr, at) == [hdr |-> hdr, at |-> at]
\* the MIME structure of a message.  A multipart message has a last
\* text/html part html and a last text/plain part text; a single-part
\* message has a content type ctype, a payload, and the undecoded payload
\* raw.  A source is "none" (no such part), "raises" (decoding it raises),
\* "empty" (no payload), "markup" (HTML without visible text), "dirty" (HTML
\* the cleanup fails on), "text", or "bare" (a text/plain part that has text
\* but no header of its own, so that the part object is falsy)
Mime(multipart, ctype, html, text, payload, raw) ==
    [multipart |-> multipart, ctype |-> ctype, html |-> html, text |-> text,
     payload |-> payload, raw |-> raw]
PlainText == Mime(FALSE, "text/plain", "none", "none", "text", "plain text")

\* raw RFC822 messages the store may deliver (Message-ID, Subject, Date,
\* MIME structure); a subject is the sequence of its tokens (prefixes,
\* blanks, words)
RawMessages ==
    { [message_id |-> "<m1@example.com>", subject |-> <<"Quarterly", " ", "Sync">>,
      date |-> DateHeader("ok", 100), mime |-> PlainText] }
\* instants datetime.now(pytz.UTC) may return while messages are normalized
Clock == {900, 901}
\* X-GM-THRID values the store may report
ThreadIds == {"1001"}
\* the flag list the store reports in a FLAGS response
SeenFlags == <<"FLAGS (\\Seen">>

Unbound == "unbound"     \* a local name that was never assigned
None == "None"
Failure == ""            \* the failure sentinel of _fetch_emails
Pending == "pending"     \* _fetch_emails has not returned yet
OutputPath == "database/user.json"

sent_folders == <<"[Gmail]/Sent Mail", "[Gmail]/Sent", "Sent", "Sent Items">>
Inbox == "INBOX"

\* '[Gmail]' in folder_name
HasGmailPrefix(f) == f \in {"[Gmail]/Sent Mail", "[Gmail]/Sent"}
\* ' ' in folder_name
HasSpace(f) == f \in {"[Gmail]/Sent Mail", "Sent Items"}
\* folder name as passed to mail.select
QuoteFolder(f) ==
    IF HasGmailPrefix(f) THEN "\"" \o f \o "\""
    ELSE IF HasSpace(f) THEN "\"" \o f \o "\""
    ELSE f

\* the sent candidates as passed to mail.select
QuotedSent == [k \in 1..Len(sent_folders) |-> QuoteFolder(sent_folders[k])]
SentNames == {QuotedSent[k] : k \in 1..Len(sent_folders)}

\* 'sent' in folder.lower()
IsSentName(q) == q \in SentNames
\* 'inbox' in folder.lower()
IsInboxName(q) == q = Inbox

VARIABLES
    imap_server,     \* self.imap_server
    num_prev_days,   \* _fetch_emails: the time window in days, or None
    pc,              \* position in _fetch_emails / fetch_folder_emails
    session,         \* "none", "open" (logged in) or "closed" (logged out)
    selected,        \* folder currently selected in the session, or None
    sidx,            \* index of the sent candidate of the for loop
    caller,          \* call site of fetch_folder_emails: "sent" or "inbox"
    folder_name,     \* fetch_folder_emails: (quoted) folder being processed
    message_count,   \* fetch_folder_emails: len(message_ids)
    i,               \* fetch_folder_emails: 1-based position in message_ids
    thread_id,       \* fetch_folder_emails: local thread_id (may be unbound)
    email_message,   \* fetch_folder_emails: parsed message, or None
    folder_emails,   \* fetch_folder_emails: records collected so far
    all_emails,      \* _fetch_emails: the accumulated records
    threads,         \* _fetch_emails: the thread list (None before it is built)
    subject_map,     \* _fetch_emails: the subject groups of tier 3, if bound
    fileWritten,     \* the JSON output file has been written
    result,          \* return value of _fetch_emails
    \* history variables (observations of the run, never read by the code)
    lastOp,          \* the last operation issued on the session
    attempts,        \* candidate folders on which select was issued, in order
    selectFailed,    \* some select of this run failed
    callOutcome,     \* how the current fetch_folder_emails call ended
    logouts,         \* number of logout calls issued
    fate,            \* what happened to the message processed last
    nativeReply,     \* what the store answered to its X-GM-THRID fetch
    made,            \* <<folder, num>> of every record normalization produced
    failedOp         \* the connect/login/list/logout/write step that failed

vars == <<imap_server, num_prev_days, pc, session, selected, sidx, caller, folder_name,
          message_count, i, thread_id, email_message, folder_emails,
          all_emails, threads, subject_map, fileWritten, result, lastOp,
          attempts,
          selectFailed, callOutcome, logouts, fate, nativeReply, made,
          failedOp>>

\* num_prev_days: None, or a number of days
NoWindow == [given |-> FALSE, days |-> 0]
Window(n) == [given |-> TRUE, days |-> n]

NoOp == [op |-> "none", arg |-> "", num |-> 0, folder |-> "", sel |-> None]
\* an operation issued now: its folder context and the folder selected
Op(o, a, n) == [op |-> o, arg |-> a, num |-> n, folder |-> folder_name, sel |-> selected]

\* raw: the parsed message a record was normalized from, NoRaw if none was
NoRaw == [message_id |-> "", subject |-> <<>>,
          date |-> [hdr |-> "none", at |-> 0],
          mime |-> [multipart |-> FALSE, ctype |-> "", html |-> "none",
                    text |-> "none", payload |-> "none", raw |-> ""]]
NoFate == [num |-> 0, kind |-> "none", raw |-> NoRaw]
Fate(n, k) == [num |-> n, kind |-> k, raw |-> NoRaw]
Normalized(n, k, raw) == [num |-> n, kind |-> k, raw |-> raw]
\* answers of the store to an X-GM-THRID fetch that carry no thread id
Unasked == "unasked"     \* the fetch was never issued for this message
Absent == "absent"       \* non-OK status, empty data, no match, or exception
\* the local subject_map while the subject tier has not run
NoSubjectMap == [bound |-> FALSE, groups |-> <<>>]
NoFailure == [op |-> "", how |-> ""]
FailedAt(o, h) == [op |-> o, how |-> h]

Init ==
    /\ imap_server \in Servers
    /\ num_prev_days = NoWindow
    /\ pc = "connect"
    /\ session = "none"
    /\ selected = None
    /\ sidx = 1
    /\ caller = "none"
    /\ folder_name = ""
    /\ message_count = 0
    /\ i = 0
    /\ thread_id = Unbound
    /\ email_message = None
    /\ folder_emails = <<>>
    /\ all_emails = <<>>
    /\ threads = None
    /\ subject_map = NoSubjectMap
    /\ fileWritten = FALSE
    /\ result = Pending
    /\ lastOp = NoOp
    /\ attempts = <<>>
    /\ selectFailed = FALSE
    /\ callOutcome = "none"
    /\ logouts = 0
    /\ fate = NoFate
    /\ nativeReply = Unasked
    /\ made = {}
    /\ failedOp = NoFailure

(***************************************************************************)
(* extract_email_details: the canonical record of one parsed message.      *)
(* em carries the attributes fetch_folder_emails attached to the message   *)
(* (folder, thread_id); flags is the parsed FLAGS response (<<>> if the    *)
(* attribute was never set).  src_folder/src_num are history fields that   *)
(* remember where the record came from.                                    *)
(***************************************************************************)
FolderLabelInboxFirst(folder) ==
    IF folder = "" THEN <<>>
    ELSE IF IsInboxName(folder) THEN <<"INBOX">>
    ELSE IF IsSentName(folder) THEN <<"INBOX", "SENT">>
    ELSE <<>>

\* the folder-derived label: "if 'sent' in ... elif 'inbox' in ..."
FolderLabel(folder) ==
    IF folder = "" THEN <<>>
    ELSE IF IsSentName(folder) THEN <<"SENT">>
    ELSE IF IsInboxName(folder) THEN <<"INBOX">>
    ELSE <<>>

ParseDateEpoch(date, now) == IF date.hdr = "ok" THEN date.at ELSE 0

\* parsedate_to_datetime(date_str), with datetime.now as the default
ParseDate(date, now) ==
    IF date.hdr = "none" THEN now
    ELSE IF date.hdr = "bad" THEN now
    ELSE date.at

\* clean_html_content(html_content) of a decoded HTML source
CleanHtml(source) ==
    CASE source = "markup" -> ""
      [] source = "dirty" -> "raw html"
      [] OTHER -> "html text"

\* decoded and cleaned text of the text/html part, "" if it gave nothing
HtmlBody(source) ==
    IF source \in {"text", "markup", "dirty"} THEN CleanHtml(source) ELSE ""

\* decoded text of the text/plain part, "" if it gave nothing; the part is
\* read under "if not body and text_part:", which a bare part fails
TextBody(source) == IF source = "text" THEN "plain text" ELSE ""

\* body of a single-part message
SinglePartBody(mime) ==
    CASE mime.payload = "raises" -> mime.raw
      [] mime.payload \in {"none", "empty"} -> ""
      [] OTHER -> IF mime.ctype = "text/html" THEN CleanHtml(mime.payload)
                  ELSE "plain text"

\* the body extraction of extract_email_details
Body(mime) ==
    IF mime.multipart
    THEN IF HtmlBody(mime.html) # "" THEN HtmlBody(mime.html)
         ELSE TextBody(mime.text)
    ELSE SinglePartBody(mime)

extract_email_details(em, flags, num, now) ==
    [ message_id  |-> em.raw.message_id,
      timestamp   |-> ParseDate(em.raw.date, now),
      subject     |-> em.raw.subject,
      body        |-> Body(em.raw.mime),
      references  |-> <<>>,
      in_reply_to |-> "",
      labels      |-> flags \o FolderLabel(em.folder),
      thread_id   |-> em.thread_id,
      src_folder  |-> em.folder,
      src_num     |-> num ]

(***************************************************************************)
(* _fetch_emails: connection, login, folder listing                        *)
(***************************************************************************)
\* the outer "except Exception: return ''" of _fetch_emails
Fatal(op, how) ==
    /\ pc' = "done"
    /\ result' = Failure
    /\ failedOp' = FailedAt(op, how)

\* imaplib.IMAP4_SSL(imap_server)
Connect ==
    /\ pc = "connect"
    /\ lastOp' = Op("connect", imap_server, 0)
    /\ \E outcome \in {"ok", "exc"} :
         IF outcome = "ok"
         THEN pc' = "login" /\ UNCHANGED <<result, failedOp>>
         ELSE Fatal("connect", "exc")
    /\ UNCHANGED <<imap_server, num_prev_days, session, selected, sidx, caller, folder_name,
                   message_count, i, thread_id, email_message, folder_emails,
                   all_emails, threads, subject_map, fileWritten, attempts, selectFailed,
                   callOutcome, logouts, fate, nativeReply, made>>

\* mail.login raised
LoginIgnored ==
    /\ pc' = "list"
    /\ result' = result
    /\ failedOp' = FailedAt("login", "exc")

LoginFailed == Fatal("login", "exc")

\* mail.login(email_address, password)
Login ==
    /\ pc = "login"
    /\ lastOp' = Op("login", "", 0)
    /\ \E outcome \in {"ok", "exc"} :
         IF outcome = "ok"
         THEN /\ pc' = "list"
              /\ session' = "open"
              /\ UNCHANGED <<result, failedOp>>
         ELSE /\ LoginFailed
              /\ session' = session
    /\ UNCHANGED <<imap_server, num_prev_days, selected, sidx, caller, folder_name,
                   message_count, i, thread_id, email_message, folder_emails,
                   all_emails, threads, subject_map, fileWritten, attempts, selectFailed,
                   callOutcome, logouts, fate, nativeReply, made>>

ListIgnored(how) ==
    /\ pc' = "sent_loop"
    /\ result' = result
    /\ failedOp' = FailedAt("list", how)

\* mail.list() returned a non-OK status ("return ''") or raised
ListFailed(how) == Fatal("list", how)

\* mail.list() and the decoding of its response
ListFolders ==
    /\ pc = "list"
    /\ lastOp' = Op("list", "", 0)
    /\ \E outcome \in {"ok", "notok", "exc"} :
         IF outcome = "ok"
         THEN pc' = "sent_loop" /\ UNCHANGED <<result, failedOp>>
         ELSE ListFailed(outcome)
    /\ UNCHANGED <<imap_server, num_prev_days, session, selected, sidx, caller, folder_name,
                   message_count, i, thread_id, email_message, folder_emails,
                   all_emails, threads, subject_map, fileWritten, attempts, selectFailed,
                   callOutcome, logouts, fate, nativeReply, made>>

(***************************************************************************)
(* fetch_folder_emails(folder_name)                                        *)
(***************************************************************************)
\* entry of fetch_folder_emails: fresh locals, folder name quoted
CallFetchFolder(site, f) ==
    /\ caller' = site
    /\ folder_name' = QuoteFolder(f)
    /\ message_count' = 0
    /\ i' = 0
    /\ thread_id' = Unbound
    /\ email_message' = None
    /\ folder_emails' = <<>>
    /\ callOutcome' = "running"
    /\ fate' = NoFate
    /\ nativeReply' = Unasked
    /\ pc' = "select"

\* a return statement of fetch_folder_emails
FolderReturn(emails, outcome) ==
    /\ pc' = "ret"
    /\ folder_emails' = emails
    /\ callOutcome' = outcome
    /\ result' = result

FolderFailFatal(outcome) ==
    /\ pc' = "done"
    /\ folder_emails' = <<>>
    /\ callOutcome' = outcome
    /\ result' = Failure

\* a failed select or search: "return []"
FolderFail(outcome) == FolderReturn(<<>>, outcome)

\* the candidate name fetch_folder_emails was called with
CurrentCandidate == IF caller = "sent" THEN sent_folders[sidx] ELSE Inbox

SelectNotOkIgnored ==
    /\ selected' = None
    /\ pc' = "search"
    /\ UNCHANGED <<folder_emails, callOutcome, result>>

\* mail.select returned a non-OK status or raised
SelectNotOk ==
    /\ selected' = None
    /\ FolderFail("select_failed")

\* mail.select(folder_name, readonly=True)
SelectFolder ==
    /\ pc = "select"
    /\ lastOp' = Op("select", folder_name, 0)
    /\ attempts' = Append(attempts, CurrentCandidate)
    /\ \E outcome \in {"ok", "notok", "exc"} :
         IF outcome = "ok"
         THEN /\ selected' = folder_name
              /\ pc' = "search"
              /\ UNCHANGED <<folder_emails, callOutcome, result, selectFailed>>
         ELSE /\ SelectNotOk
              /\ selectFailed' = TRUE
    /\ UNCHANGED <<imap_server, num_prev_days, session, sidx, caller, folder_name,
                   message_count, i, thread_id, email_message, all_emails,
                   threads, subject_map, fileWritten, logouts, fate, nativeReply, made, failedOp>>

\* first statement of the per-message loop body
StartPc == IF imap_server = Gmail THEN "thrid" ELSE "rfc822"

\* mail.search(None, search_criteria) and the split of its response
\* the UTC days the clock may show during a run, and the values of
\* date.strftime("%d-%b-%Y") of the days around them
Today == {4, 5}
Calendar == <<"31-Oct-2026", "01-Nov-2026", "02-Nov-2026", "03-Nov-2026",
              "04-Nov-2026">>
\* the day counts a caller may configure as the time window
Windows == {0, 1, 2}

SearchCriteriaZeroIsAll(n, today) ==
    IF ~n.given THEN "ALL"
    ELSE IF n.days = 0 THEN "ALL"
    ELSE "SINCE \"" \o Calendar[today - n.days] \o "\""

\* search_criteria for the window n when the clock shows the day today
SearchCriteria(n, today) ==
    IF ~n.given THEN "ALL"
    ELSE "SINCE \"" \o Calendar[today - n.days] \o "\""

\* mail.search(None, search_criteria) and the split of the answer
SearchFolder ==
    /\ pc = "search"
    /\ \E arg \in {SearchCriteria(num_prev_days, today) : today \in Today} :
         lastOp' = Op("search", arg, 0)
    /\ \E outcome \in {"ok", "notok", "exc"} :
         IF outcome = "ok"
         THEN \E n \in 0..MaxMsgs :
                IF n = 0
                THEN /\ FolderReturn(<<>>, "no_ids")
                     /\ UNCHANGED <<message_count, i>>
                ELSE /\ message_count' = n
                     /\ i' = 1
                     /\ pc' = StartPc
                     /\ UNCHANGED <<folder_emails, callOutcome, result>>
         ELSE /\ FolderFail("search_failed")
              /\ UNCHANGED <<message_count, i>>
    /\ UNCHANGED <<imap_server, num_prev_days, session, selected, sidx, caller, folder_name,
                   thread_id, email_message, all_emails, threads, subject_map, fileWritten,
                   attempts, selectFailed, logouts, fate, nativeReply, made, failedOp>>

\* end of one iteration of the per-message loop ("continue" or fall-through)
NextMessage(emails) ==
    /\ email_message' = None
    /\ IF i < message_count
       THEN /\ i' = i + 1
            /\ pc' = StartPc
            /\ folder_emails' = emails
            /\ UNCHANGED <<callOutcome, result>>
       ELSE /\ i' = i
            /\ FolderReturn(emails, "processed")

SkipMessageAbortsFolder ==
    /\ email_message' = None
    /\ i' = i
    /\ FolderReturn(<<>>, "processed")

\* a message that is skipped: "continue", or the per-message except
SkipMessage == NextMessage(folder_emails)

\* mail.fetch(num, "(X-GM-THRID)"), issued only for imap.gmail.com
FetchThrid ==
    /\ pc = "thrid"
    /\ lastOp' = Op("fetch", "(X-GM-THRID)", i)
    /\ pc' = "rfc822"
    /\ \E outcome \in {"match", "nomatch", "notok", "exc"} :
         CASE outcome = "match" ->
                /\ \E t \in ThreadIds : thread_id' = t /\ nativeReply' = t
                /\ fate' = Fate(i, "thrid_ok")
           [] outcome = "nomatch" ->
                /\ thread_id' = None
                /\ nativeReply' = Absent
                /\ fate' = Fate(i, "thrid_ok")
           [] outcome = "notok" ->
                /\ thread_id' = thread_id
                /\ nativeReply' = Absent
                /\ fate' = Fate(i, "thrid_failed")
           [] outcome = "exc" ->
                /\ thread_id' = None
                /\ nativeReply' = Absent
                /\ fate' = Fate(i, "thrid_failed")
    /\ UNCHANGED <<imap_server, num_prev_days, session, selected, sidx, caller, folder_name,
                   message_count, i, email_message, folder_emails, all_emails,
                   threads, subject_map, fileWritten, result, attempts, selectFailed,
                   callOutcome, logouts, made, failedOp>>

\* mail.fetch(num, "(RFC822)"), the shape checks and message_from_bytes,
\* then "if thread_id:" which reads the local thread_id
FetchRFC822 ==
    /\ pc = "rfc822"
    /\ lastOp' = Op("fetch", "(RFC822)", i)
    /\ \E outcome \in {"ok", "notok", "malformed", "exc"} :
         IF outcome = "ok"
         THEN \E raw \in RawMessages :
                IF thread_id = Unbound
                THEN \* UnboundLocalError, caught by the per-message except
                     /\ SkipMessage
                     /\ fate' = Fate(i, "other")
                ELSE /\ email_message' = [raw |-> raw, folder |-> folder_name,
                                          thread_id |-> thread_id]
                     /\ pc' = "flags"
                     /\ UNCHANGED <<i, folder_emails, callOutcome, result, fate>>
         ELSE /\ SkipMessage
              /\ fate' = Fate(i, "failed")
    /\ UNCHANGED <<imap_server, num_prev_days, session, selected, sidx, caller, folder_name,
                   message_count, thread_id, all_emails, threads, subject_map, fileWritten,
                   attempts, selectFailed, logouts, nativeReply, made, failedOp>>

\* mail.fetch(num, "(FLAGS)"), extract_email_details and the append
FetchFlags ==
    /\ pc = "flags"
    /\ lastOp' = Op("fetch", "(FLAGS)", i)
    /\ \E outcome \in {"ok", "notok", "exc"}, normalized \in BOOLEAN,
          now \in Clock :
         IF outcome = "exc" \/ ~normalized
         THEN /\ SkipMessage
              /\ fate' = Fate(i, "failed")
              /\ made' = made
         ELSE /\ NextMessage(Append(folder_emails,
                     extract_email_details(email_message,
                         IF outcome = "ok" THEN SeenFlags ELSE <<>>, i, now)))
              /\ fate' = Normalized(i,
                              IF outcome = "ok" /\ fate.kind = "thrid_ok"
                              THEN "clean" ELSE "other",
                              email_message.raw)
              /\ made' = made \cup {<<folder_name, i>>}
    /\ UNCHANGED <<imap_server, num_prev_days, session, selected, sidx, caller, folder_name,
                   message_count, thread_id, all_emails, threads, subject_map, fileWritten,
                   attempts, selectFailed, logouts, nativeReply, failedOp>>

(***************************************************************************)
(* _fetch_emails: the sent-folder loop, the inbox, logout                  *)
(***************************************************************************)
\* for folder in sent_folders: sent_emails = fetch_folder_emails(folder)
TrySentFolder ==
    /\ pc = "sent_loop"
    /\ sidx <= Len(sent_folders)
    /\ CallFetchFolder("sent", sent_folders[sidx])
    /\ UNCHANGED <<imap_server, num_prev_days, session, selected, sidx, all_emails, threads, subject_map,
                   fileWritten, result, lastOp, attempts, selectFailed,
                   logouts, made, failedOp>>

\* the for loop ran out of candidates
SentExhausted ==
    /\ pc = "sent_loop"
    /\ sidx > Len(sent_folders)
    /\ pc' = "inbox"
    /\ UNCHANGED <<imap_server, num_prev_days, session, selected, sidx, caller, folder_name,
                   message_count, i, thread_id, email_message, folder_emails,
                   all_emails, threads, subject_map, fileWritten, result, lastOp, attempts,
                   selectFailed, callOutcome, logouts, fate, nativeReply, made, failedOp>>

\* the locals of a finished fetch_folder_emails call are dropped
DropLocals ==
    /\ folder_name' = ""
    /\ message_count' = 0
    /\ i' = 0
    /\ thread_id' = Unbound
    /\ email_message' = None
    /\ folder_emails' = <<>>
    /\ callOutcome' = "none"
    /\ fate' = NoFate
    /\ nativeReply' = Unasked

ExtendFront(emails) == all_emails' = emails \o all_emails

\* all_emails.extend(emails)
Extend(emails) == all_emails' = all_emails \o emails

SentFoundContinues ==
    /\ Extend(folder_emails)
    /\ pc' = "sent_loop"
    /\ sidx' = sidx + 1

SentFoundSkipsInbox ==
    /\ Extend(folder_emails)
    /\ pc' = "logout"
    /\ sidx' = sidx

\* if sent_emails: all_emails.extend(sent_emails); break
SentFound ==
    /\ Extend(folder_emails)
    /\ pc' = "inbox"
    /\ sidx' = sidx

\* the value fetch_folder_emails returned for a sent candidate
SentReturn ==
    /\ pc = "ret"
    /\ caller = "sent"
    /\ IF folder_emails # <<>>
       THEN SentFound
       ELSE /\ all_emails' = all_emails
            /\ pc' = "sent_loop"
            /\ sidx' = sidx + 1
    /\ DropLocals
    /\ UNCHANGED <<imap_server, num_prev_days, session, selected, caller, threads, subject_map,
                   fileWritten, result, lastOp, attempts, selectFailed,
                   logouts, made, failedOp>>

\* inbox_emails = fetch_folder_emails('INBOX')
CallInbox ==
    /\ pc = "inbox"
    /\ CallFetchFolder("inbox", Inbox)
    /\ UNCHANGED <<imap_server, num_prev_days, session, selected, sidx, all_emails, threads, subject_map,
                   fileWritten, result, lastOp, attempts, selectFailed,
                   logouts, made, failedOp>>

InboxDoneSkipsLogout == pc' = "build"

\* the statement that follows the inbox batch: step [6/8], logout
InboxDone == pc' = "logout"

\* if inbox_emails: all_emails.extend(inbox_emails)
InboxReturn ==
    /\ pc = "ret"
    /\ caller = "inbox"
    /\ IF folder_emails # <<>>
       THEN Extend(folder_emails)
       ELSE all_emails' = all_emails
    /\ InboxDone
    /\ DropLocals
    /\ UNCHANGED <<imap_server, num_prev_days, session, selected, sidx, caller, threads, subject_map,
                   fileWritten, result, lastOp, attempts, selectFailed,
                   logouts, made, failedOp>>

\* mail.logout(); an exception reaches the outer except, and the records
\* collected so far die with the frame of _fetch_emails
Logout ==
    /\ pc = "logout"
    /\ lastOp' = Op("logout", "", 0)
    /\ logouts' = logouts + 1
    /\ selected' = None
    /\ \E outcome \in {"ok", "exc"} :
         IF outcome = "ok"
         THEN /\ session' = "closed"
              /\ pc' = "build"
              /\ UNCHANGED <<result, failedOp, all_emails>>
         ELSE /\ session' = session
              /\ Fatal("logout", "exc")
              /\ all_emails' = <<>>
    /\ UNCHANGED <<imap_server, num_prev_days, sidx, caller, folder_name, message_count, i,
                   thread_id, email_message, folder_emails, threads, subject_map,
                   fileWritten, attempts, selectFailed, callOutcome, fate,
                   nativeReply, made>>

(***************************************************************************)
(* _fetch_emails: thread building.  thread_map is an insertion-ordered     *)
(* dict: a sequence of [key, msgs] entries.                                *)
(***************************************************************************)
\* residues of hash(subject) % 10000000 the model distinguishes
HashValues == {0, 1}

\* thread_map[key].append(rec)
MapAppend(tm, key, rec) ==
    IF \E k \in 1..Len(tm) : tm[k].key = key
    THEN [k \in 1..Len(tm) |->
            IF tm[k].key = key
            THEN [tm[k] EXCEPT !.msgs = Append(@, rec)]
            ELSE tm[k]]
    ELSE Append(tm, [key |-> key, msgs |-> <<rec>>])

\* tier 1: group the records that carry a native thread id
RECURSIVE NativeTier(_, _)
NativeTier(emails, tm) ==
    IF emails = <<>> THEN tm
    ELSE NativeTier(Tail(emails),
                    IF Head(emails).thread_id # None
                    THEN MapAppend(tm, Head(emails).thread_id, Head(emails))
                    ELSE tm)

\* ids of msg_id_map: the non-empty message ids
KnownIds(emails) ==
    {emails[k].message_id : k \in 1..Len(emails)} \ {""}

\* msg_id_map[id]: the last record carrying that id
MsgIdMap(emails) ==
    [id \in KnownIds(emails) |->
        emails[CHOOSE k \in 1..Len(emails) :
                 /\ emails[k].message_id = id
                 /\ \A j \in (k+1)..Len(emails) : emails[j].message_id # id]]

\* the known ids among a list of references, in order
RECURSIVE KnownRefs(_, _)
KnownRefs(refs, ids) ==
    IF refs = <<>> THEN <<>>
    ELSE (IF Head(refs) \in ids THEN <<Head(refs)>> ELSE <<>>)
         \o KnownRefs(Tail(refs), ids)

\* the parents one record registers itself under, in order
ParentsOf(rec, ids) ==
    IF rec.message_id = "" THEN <<>>
    ELSE (IF rec.in_reply_to # "" /\ rec.in_reply_to \in ids
          THEN <<rec.in_reply_to>> ELSE <<>>)
         \o KnownRefs(rec.references, ids)

\* reply_map[parent]: the children registered under parent, in order
RECURSIVE ChildrenOf(_, _, _)
ChildrenOf(parent, emails, ids) ==
    IF emails = <<>> THEN <<>>
    ELSE LET ps == ParentsOf(Head(emails), ids)
             n  == Cardinality({k \in 1..Len(ps) : ps[k] = parent})
         IN  [k \in 1..n |-> Head(emails).message_id]
             \o ChildrenOf(parent, Tail(emails), ids)

ReplyMap(emails) ==
    LET ids == KnownIds(emails)
    IN  [id \in {p \in ids : ChildrenOf(p, emails, ids) # <<>>} |->
            ChildrenOf(id, emails, ids)]

\* ids of the records without an in_reply_to that names a known id
Roots(emails) ==
    LET ids == KnownIds(emails)
    IN  {emails[k].message_id : k \in
            {j \in 1..Len(emails) :
                /\ emails[j].message_id # ""
                /\ ~(emails[j].in_reply_to # "" /\ emails[j].in_reply_to \in ids)}}

\* build_thread(root_id, thread_id): acc is [tm, processed]
RECURSIVE build_thread(_, _, _, _, _)
RECURSIVE BuildReplies(_, _, _, _, _)
build_thread(root_id, tid, acc, idmap, rmap) ==
    IF root_id \in acc.processed THEN acc
    ELSE LET acc1 == [tm |-> IF root_id \in DOMAIN idmap
                             THEN MapAppend(acc.tm, tid, idmap[root_id])
                             ELSE acc.tm,
                      processed |-> acc.processed \cup {root_id}]
         IN  BuildReplies(IF root_id \in DOMAIN rmap THEN rmap[root_id] ELSE <<>>,
                          tid, acc1, idmap, rmap)
BuildReplies(replies, tid, acc, idmap, rmap) ==
    IF replies = <<>> THEN acc
    ELSE BuildReplies(Tail(replies), tid,
                      build_thread(Head(replies), tid, acc, idmap, rmap),
                      idmap, rmap)

RECURSIVE BuildFromRootsFreshVisited(_, _, _, _)
BuildFromRootsFreshVisited(order, acc, idmap, rmap) ==
    IF order = <<>> THEN acc
    ELSE BuildFromRootsFreshVisited(Tail(order),
             build_thread(Head(order), Head(order),
                          [tm |-> acc.tm, processed |-> {}], idmap, rmap),
             idmap, rmap)

\* for root_id in roots: build_thread(root_id, root_id)
RECURSIVE BuildFromRoots(_, _, _, _)
BuildFromRoots(order, acc, idmap, rmap) ==
    IF order = <<>> THEN acc
    ELSE BuildFromRoots(Tail(order),
                        build_thread(Head(order), Head(order), acc, idmap, rmap),
                        idmap, rmap)

\* tier 2: order is the iteration order of the set roots
ReplyTier(emails, order) ==
    LET rmap == ReplyMap(emails)
    IN  IF DOMAIN rmap = {} THEN <<>>
        ELSE BuildFromRoots(order, [tm |-> <<>>, processed |-> {}],
                            MsgIdMap(emails), rmap).tm

\* tokens the pattern (?:Re|Fwd): matches, ignoring case
IsReplyPrefix(tok) == tok \in {"Re:", "RE:", "re:", "Fwd:", "FWD:", "fwd:"}
\* tokens \s matches
IsBlank(tok) == tok \in {" ", "\t"}

RECURSIVE DropBlanks(_)
DropBlanks(s) ==
    IF s # <<>> /\ IsBlank(Head(s)) THEN DropBlanks(Tail(s)) ELSE s

\* every stacked prefix is removed, not only the first
RECURSIVE NormalizeSubjectStacked(_)
NormalizeSubjectStacked(s) ==
    IF s # <<>> /\ IsReplyPrefix(Head(s))
    THEN NormalizeSubjectStacked(DropBlanks(Tail(s)))
    ELSE s

\* re.sub(r'^(?:Re|Fwd):\s*', '', subject, flags=re.IGNORECASE)
NormalizeSubject(s) ==
    IF s # <<>> /\ IsReplyPrefix(Head(s)) THEN DropBlanks(Tail(s)) ELSE s

NormalizedSubjects(emails) ==
    {NormalizeSubject(emails[k].subject) : k \in 1..Len(emails)}

\* hash functions of one interpreter process: hash('') is 0, every other
\* value depends on the per-process seed
HashFunctions(subjects) ==
    {h \in [subjects -> HashValues] : <<>> \in subjects => h[<<>>] = 0}

Digits == <<"0", "1", "2", "3", "4", "5", "6", "7", "8", "9">>
\* f"{n:07d}" for the one-digit residues the model distinguishes
Format07d(n) == "000000" \o Digits[n + 1]

\* f"thread_{hash(subject) % 10000000:07d}"
SubjectThreadId(subject, h) == "thread_" \o Format07d(h[subject])

\* subject_map: records grouped by normalized subject
RECURSIVE SubjectMap(_, _)
SubjectMap(emails, sm) ==
    IF emails = <<>> THEN sm
    ELSE SubjectMap(Tail(emails),
                    MapAppend(sm, NormalizeSubject(Head(emails).subject),
                              Head(emails)))

RECURSIVE AppendAll(_, _, _)
AppendAll(tm, key, msgs) ==
    IF msgs = <<>> THEN tm
    ELSE AppendAll(MapAppend(tm, key, Head(msgs)), key, Tail(msgs))

\* for subject, emails in subject_map.items(): thread_map[thread_id].append(..)
RECURSIVE SubjectGroups(_, _, _)
SubjectGroups(sm, tm, h) ==
    IF sm = <<>> THEN tm
    ELSE SubjectGroups(Tail(sm),
                       AppendAll(tm, SubjectThreadId(Head(sm).key, h),
                                 Head(sm).msgs),
                       h)

\* tier 3
SubjectTier(emails, h) == SubjectGroups(SubjectMap(emails, <<>>), <<>>, h)

\* tier 3 is evaluated although tier 2 produced threads
ThreadMapReplyThenSubject(emails, order, h) ==
    LET t1 == NativeTier(emails, <<>>)
    IN  IF t1 # <<>> THEN t1
        ELSE ReplyTier(emails, order) \o SubjectTier(emails, h)

\* tier 3 is evaluated although tier 1 produced groups
ThreadMapNativeThenSubject(emails, order, h) ==
    LET t1 == NativeTier(emails, <<>>)
    IN  IF t1 # <<>> THEN t1 \o SubjectTier(emails, h)
        ELSE LET t2 == ReplyTier(emails, order)
             IN  IF t2 # <<>> THEN t2 ELSE SubjectTier(emails, h)

\* the three tiers, each evaluated only if thread_map is still empty
ThreadMap(emails, order, h) ==
    LET t1 == NativeTier(emails, <<>>)
    IN  IF t1 # <<>> THEN t1
        ELSE LET t2 == ReplyTier(emails, order)
             IN  IF t2 # <<>> THEN t2 ELSE SubjectTier(emails, h)

\* subject_map exists only if tiers 1 and 2 left thread_map empty
SubjectMapOf(emails, order) ==
    IF NativeTier(emails, <<>>) = <<>> /\ ReplyTier(emails, order) = <<>>
    THEN [bound |-> TRUE, groups |-> SubjectMap(emails, <<>>)]
    ELSE NoSubjectMap

\* list.sort(key=timestamp): stable, ascending
RECURSIVE InsertByTimestamp(_, _)
InsertByTimestamp(sorted, rec) ==
    IF sorted = <<>> THEN <<rec>>
    ELSE IF sorted[Len(sorted)].timestamp <= rec.timestamp
         THEN Append(sorted, rec)
         ELSE Append(InsertByTimestamp(SubSeq(sorted, 1, Len(sorted) - 1), rec),
                     sorted[Len(sorted)])

\* the messages are left in the order they were grouped in
SortByTimestampSkipped(msgs) == msgs

RECURSIVE SortByTimestamp(_)
SortByTimestamp(msgs) ==
    IF msgs = <<>> THEN <<>>
    ELSE InsertByTimestamp(SortByTimestamp(SubSeq(msgs, 1, Len(msgs) - 1)),
                           msgs[Len(msgs)])

\* only the labels of the last message are taken
LabelsOfLast(msgs) ==
    {msgs[Len(msgs)].labels[j] : j \in 1..Len(msgs[Len(msgs)].labels)}

\* the labels of all messages of a thread
LabelsOf(msgs) ==
    UNION {{msgs[k].labels[j] : j \in 1..Len(msgs[k].labels)} : k \in 1..Len(msgs)}

\* total_messages counts the replies only
ThreadDataCountsReplies(entry) ==
    LET msgs == SortByTimestamp(entry.msgs)
    IN  [ thread_id           |-> entry.key,
          total_messages      |-> Len(msgs) - 1,
          labels              |-> LabelsOf(msgs),
          reply_to_message_id |-> msgs[Len(msgs)].message_id,
          messages            |-> msgs ]

\* reply_to_message_id is taken from the first message
ThreadDataReplyToFirst(entry) ==
    LET msgs == SortByTimestamp(entry.msgs)
    IN  [ thread_id           |-> entry.key,
          total_messages      |-> Len(msgs),
          labels              |-> LabelsOf(msgs),
          reply_to_message_id |-> msgs[1].message_id,
          messages            |-> msgs ]

\* thread_data of one thread_map entry
ThreadData(entry) ==
    LET msgs == SortByTimestamp(entry.msgs)
    IN  [ thread_id           |-> entry.key,
          total_messages      |-> Len(msgs),
          labels              |-> LabelsOf(msgs),
          reply_to_message_id |-> msgs[Len(msgs)].message_id,
          messages            |-> msgs ]

\* sort key of a thread: timestamp of its last message
SortTimestamp(t) == t.messages[Len(t.messages)].timestamp

\* the sort without reverse=True
RECURSIVE InsertThreadAscending(_, _)
InsertThreadAscending(sorted, t) ==
    IF sorted = <<>> THEN <<t>>
    ELSE IF SortTimestamp(sorted[Len(sorted)]) <= SortTimestamp(t)
         THEN Append(sorted, t)
         ELSE Append(InsertThreadAscending(SubSeq(sorted, 1, Len(sorted) - 1), t),
                     sorted[Len(sorted)])

\* threads.sort(key=sort_timestamp, reverse=True): stable, descending
RECURSIVE InsertThread(_, _)
InsertThread(sorted, t) ==
    IF sorted = <<>> THEN <<t>>
    ELSE IF SortTimestamp(sorted[Len(sorted)]) >= SortTimestamp(t)
         THEN Append(sorted, t)
         ELSE Append(InsertThread(SubSeq(sorted, 1, Len(sorted) - 1), t),
                     sorted[Len(sorted)])

RECURSIVE SortThreads(_)
SortThreads(ts) ==
    IF ts = <<>> THEN <<>>
    ELSE InsertThread(SortThreads(SubSeq(ts, 1, Len(ts) - 1)), ts[Len(ts)])

\* the list written to the output file
ThreadList(emails, order, h) ==
    LET tm == ThreadMap(emails, order, h)
    IN  SortThreads([k \in 1..Len(tm) |-> ThreadData(tm[k])])

\* the orders in which a set may be iterated
Orders(S) ==
    {o \in [1..Cardinality(S) -> S] : \A x \in S : \E k \in DOMAIN o : o[k] = x}

\* steps [7/8] and the first half of [8/8]: group, sort, assemble
BuildThreads ==
    /\ pc = "build"
    /\ \E order \in Orders(Roots(all_emails)),
          h \in HashFunctions(NormalizedSubjects(all_emails)) :
         /\ threads' = ThreadList(all_emails, order, h)
         /\ subject_map' = SubjectMapOf(all_emails, order)
    /\ pc' = "write"
    /\ UNCHANGED <<imap_server, num_prev_days, session, selected, sidx, caller, folder_name,
                   message_count, i, thread_id, email_message, folder_emails,
                   all_emails, fileWritten, result, lastOp, attempts,
                   selectFailed, callOutcome, logouts, fate, nativeReply, made, failedOp>>

\* mkdir, open and json.dump, then the return: the written file keeps the
\* thread list, the locals die with the frame; an exception reaches the
\* outer except
WriteJson ==
    /\ pc = "write"
    /\ \E outcome \in {"ok", "exc"} :
         IF outcome = "ok"
         THEN /\ fileWritten' = TRUE
              /\ pc' = "done"
              /\ result' = OutputPath
              /\ failedOp' = failedOp
              /\ threads' = threads
         ELSE /\ fileWritten' = FALSE
              /\ Fatal("write", "exc")
              /\ threads' = None
    /\ all_emails' = <<>>
    /\ subject_map' = NoSubjectMap
    /\ UNCHANGED <<imap_server, num_prev_days, session, selected, sidx, caller, folder_name,
                   message_count, i, thread_id, email_message, folder_emails,
                   lastOp, attempts, selectFailed, callOutcome, logouts, fate,
                   nativeReply, made>>

Next ==
    \/ Connect
    \/ Login
    \/ ListFolders
    \/ TrySentFolder
    \/ SentExhausted
    \/ SelectFolder
    \/ SearchFolder
    \/ FetchThrid
    \/ FetchRFC822
    \/ FetchFlags
    \/ SentReturn
    \/ CallInbox
    \/ InboxReturn
    \/ Logout
    \/ BuildThreads
    \/ WriteJson

Spec == Init /\ [][Next]_vars

(***************************************************************************)
(* Thread building as a function of the collected records: steps [7/8] and *)
(* [8/8] applied to every sequence of at most MaxRecords records drawn     *)
(* from a set of sample records, which includes records whose references   *)
(* and in_reply_to are filled in.                                          *)
(***************************************************************************)
\* largest number of records handed to the thread building
MaxRecords == 3

Quarterly == <<"Quarterly", " ", "Sync">>

\* a record as extract_email_details lays it out
Record(id, ts, subject, irt, refs, tid) ==
    [ message_id  |-> id,
      timestamp   |-> ts,
      subject     |-> subject,
      body        |-> "plain text",
      references  |-> refs,
      in_reply_to |-> irt,
      labels      |-> <<"INBOX">>,
      thread_id   |-> tid ]

\* A has no parent, B replies to A, C only references A, D replies to a
\* message that was not collected
RecA == Record("<a>", 100, Quarterly, "", <<>>, None)
RecB == Record("<b>", 200, <<"Re:", " ">> \o Quarterly, "<a>", <<>>, None)
RecC == Record("<c>", 300, <<"Fwd:", " ">> \o Quarterly, "", <<"<a>">>, None)
RecD == Record("<d>", 200, <<"Quarterly", " ", " ", "Sync">>, "<x>", <<>>, None)
\* a second message carrying A's Message-ID and timestamp
RecA2 == Record("<a>", 100, <<"RE:">> \o Quarterly, "", <<>>, None)
\* no Message-ID header, a stacked prefix
RecE == Record("", 300, <<"Re:", " ", "Re:", " ">> \o Quarterly, "", <<>>, None)
\* a message that names itself as its parent
RecR == Record("<r>", 200, Quarterly, "<r>", <<>>, None)
\* a reply to A that names A twice and also refers to its own reply G
RecF == Record("<f>", 200, <<"Re:", " ">> \o Quarterly, "<a>", <<"<a>", "<g>">>, None)
\* a reply to F: F and G refer to each other
RecG == Record("<g>", 300, <<"Re:", " ">> \o Quarterly, "<f>", <<>>, None)
\* records with a native thread id
RecN1 == Record("<n1>", 300, Quarterly, "", <<>>, "1001")
RecN2 == Record("<n2>", 100, Quarterly, "", <<>>, "1002")
RecN3 == Record("<n3>", 200, Quarterly, "", <<>>, "1003")
RecN4 == Record("<n4>", 300, <<"Re:", " ">> \o Quarterly, "<n1>", <<>>, "1001")

SampleRecords ==
    {RecA, RecB, RecC, RecD, RecA2, RecE, RecR, RecF, RecG,
     RecN1, RecN2, RecN3, RecN4}

\* the record of the k-th message of the inbox
Collected(rec, k) ==
    [ message_id  |-> rec.message_id,
      timestamp   |-> rec.timestamp,
      subject     |-> rec.subject,
      body        |-> rec.body,
      references  |-> rec.references,
      in_reply_to |-> rec.in_reply_to,
      labels      |-> rec.labels,
      thread_id   |-> rec.thread_id,
      src_folder  |-> Inbox,
      src_num     |-> k ]

\* the sequences of n collected records
RecordSeqs(n) ==
    {[k \in 1..n |-> Collected(f[k], k)] : f \in [1..n -> SampleRecords]}

\* the state after step [6/8]: the session is closed, all_emails is complete
InitBuild ==
    /\ imap_server = Gmail
    /\ num_prev_days = NoWindow
    /\ pc = "build"
    /\ session = "closed"
    /\ selected = None
    /\ sidx = Len(sent_folders) + 1
    /\ caller = "inbox"
    /\ folder_name = ""
    /\ message_count = 0
    /\ i = 0
    /\ thread_id = Unbound
    /\ email_message = None
    /\ folder_emails = <<>>
    /\ \E n \in 0..MaxRecords : all_emails \in RecordSeqs(n)
    /\ threads = None
    /\ subject_map = NoSubjectMap
    /\ fileWritten = FALSE
    /\ result = Pending
    /\ lastOp = [op |-> "logout", arg |-> "", num |-> 0, folder |-> "", sel |-> None]
    /\ attempts = sent_folders \o <<Inbox>>
    /\ selectFailed = FALSE
    /\ callOutcome = "none"
    /\ logouts = 1
    /\ fate = NoFate
    /\ nativeReply = Unasked
    /\ made = {<<Inbox, k>> : k \in 1..Len(all_emails)}
    /\ failedOp = NoFailure

NextBuild ==
    \/ BuildThreads
    \/ WriteJson

SpecBuild == InitBuild /\ [][NextBuild]_vars

(***************************************************************************)
(* Normalization as a function of the parsed message: the specification    *)
(* SpecExtract starts where the first message of a folder has been fetched *)
(* and parsed, draws that message from SampleMessages, and applies         *)
(* extract_email_details to it.                                            *)
(***************************************************************************)
DateHeaders == {DateHeader("ok", 100), DateHeader("bad", 0), DateHeader("none", 0)}

\* multipart messages: every combination of the two kinds of text part
MultipartMimes ==
    {Mime(TRUE, "multipart/alternative", h, t, "none", "") :
        h \in {"none", "raises", "empty", "markup", "dirty", "text"},
        t \in {"none", "raises", "empty", "text", "bare"}}

\* single-part messages of either content type
SinglePartMimes ==
    {Mime(FALSE, "text/html", "none", "none", p, "raw payload") :
        p \in {"raises", "empty", "markup", "dirty", "text"}}
    \cup {Mime(FALSE, "text/plain", "none", "none", p, "raw payload") :
        p \in {"raises", "empty", "text"}}
    \cup {Mime(FALSE, c, "none", "none", "raises", "") :
        c \in {"text/html", "text/plain"}}

SampleMessages ==
    {[message_id |-> "<m1@example.com>", subject |-> <<"Quarterly", " ", "Sync">>,
      date |-> d, mime |-> m] :
        d \in DateHeaders, m \in MultipartMimes \cup SinglePartMimes}

\* the state of fetch_folder_emails after "email_message.thread_id = ..."
\* for message 1 of a sent candidate (site k) or of the inbox
InitExtract ==
    /\ imap_server = Gmail
    /\ num_prev_days = NoWindow
    /\ pc = "flags"
    /\ session = "open"
    /\ \E k \in 1..(Len(sent_folders) + 1) :
         /\ sidx = IF k <= Len(sent_folders) THEN k ELSE Len(sent_folders) + 1
         /\ caller = IF k <= Len(sent_folders) THEN "sent" ELSE "inbox"
         /\ folder_name = IF k <= Len(sent_folders)
                          THEN QuoteFolder(sent_folders[k]) ELSE Inbox
         /\ attempts = SubSeq(sent_folders \o <<Inbox>>, 1, k)
    /\ selected = folder_name
    /\ message_count = 1
    /\ i = 1
    /\ thread_id \in ThreadIds \cup {None}
    /\ \E raw \in SampleMessages :
         email_message = [raw |-> raw, folder |-> folder_name,
                          thread_id |-> thread_id]
    /\ folder_emails = <<>>
    /\ all_emails = <<>>
    /\ threads = None
    /\ subject_map = NoSubjectMap
    /\ fileWritten = FALSE
    /\ result = Pending
    /\ lastOp = [op |-> "fetch", arg |-> "(RFC822)", num |-> 1,
                 folder |-> folder_name, sel |-> folder_name]
    /\ selectFailed = FALSE
    /\ callOutcome = "running"
    /\ logouts = 0
    /\ fate = Fate(1, "thrid_ok")
    /\ nativeReply = IF thread_id = None THEN Absent ELSE thread_id
    /\ made = {}
    /\ failedOp = NoFailure

NextExtract == FetchFlags

SpecExtract == InitExtract /\ [][NextExtract]_vars

(***************************************************************************)
(* Runs with a time window: fetch_email_threads_by_prev_days(n) on a       *)
(* server other than imap.gmail.com                                        *)
(***************************************************************************)
InitWindow ==
    /\ imap_server = OtherServer
    /\ num_prev_days \in {Window(n) : n \in Windows} \cup {NoWindow}
    /\ pc = "connect"
    /\ session = "none"
    /\ selected = None
    /\ sidx = 1
    /\ caller = "none"
    /\ folder_name = ""
    /\ message_count = 0
    /\ i = 0
    /\ thread_id = Unbound
    /\ email_message = None
    /\ folder_emails = <<>>
    /\ all_emails = <<>>
    /\ threads = None
    /\ subject_map = NoSubjectMap
    /\ fileWritten = FALSE
    /\ result = Pending
    /\ lastOp = NoOp
    /\ attempts = <<>>
    /\ selectFailed = FALSE
    /\ callOutcome = "none"
    /\ logouts = 0
    /\ fate = NoFate
    /\ nativeReply = Unasked
    /\ made = {}
    /\ failedOp = NoFailure

\* the steps of such a run: StartPc skips the X-GM-THRID fetch, and "if
\* thread_id:" ends every iteration before the FLAGS fetch
NextWindow ==
    \/ Connect
    \/ Login
    \/ ListFolders
    \/ TrySentFolder
    \/ SentExhausted
    \/ SelectFolder
    \/ SearchFolder
    \/ FetchRFC822
    \/ SentReturn
    \/ CallInbox
    \/ InboxReturn
    \/ Logout
    \/ BuildThreads
    \/ WriteJson

SpecWindow == InitWindow /\ [][NextWindow]_vars


(***************************************************************************)
(* Observations used by the properties                                     *)
(***************************************************************************)
FolderPcs == {"select", "search", "thrid", "rfc822", "flags", "ret"}
MessagePcs == {"search", "thrid", "rfc822", "flags"}
AfterFolders == {"logout", "build", "write", "done"}

\* connect, login and list all succeeded
PassedListing ==
    /\ pc \notin {"connect", "login", "list"}
    /\ failedOp.op \notin {"connect", "login", "list"}

SrcNums(emails) == [k \in 1..Len(emails) |-> emails[k].src_num]
SrcTags(emails) ==
    [k \in 1..Len(emails) |-> <<emails[k].src_folder, emails[k].src_num>>]
Range(f) == {f[k] : k \in DOMAIN f}

InboxAttempts == {k \in 1..Len(attempts) : attempts[k] = Inbox}
SentAttempts == {k \in 1..Len(attempts) : attempts[k] # Inbox}
\* the sent candidates that have records in all_emails
Contributing ==
    {k \in 1..Len(sent_folders) :
        \E j \in 1..Len(all_emails) :
            all_emails[j].src_folder = QuotedSent[k]}
\* the sent loop has ended and _fetch_emails still holds its records
SentPhaseOver ==
    /\ PassedListing
    /\ pc # "done"
    /\ (pc \in {"inbox"} \cup AfterFolders \/ caller = "inbox")

(***************************************************************************)
(* C1: per-message fault isolation.  During and at the end of a folder     *)
(* call the folder result holds exactly the records normalization produced *)
(* for this folder, each once and in search order; a message whose own     *)
(* thread-id, content and flag retrieval and normalization succeeded has   *)
(* its record in the result, a message whose content, flag retrieval or    *)
(* normalization failed has none, and a loop that returns normally has     *)
(* visited every id of the search result.                                  *)
(***************************************************************************)
C1_MessageIsolation ==
    pc \in FolderPcs =>
        LET nums == SrcNums(folder_emails)
        IN  /\ \A k \in 1..Len(folder_emails) :
                   folder_emails[k].src_folder = folder_name
            /\ \A k, l \in 1..Len(nums) : k < l => nums[k] < nums[l]
            /\ Range(nums) = {n \in 1..MaxMsgs + 1 : <<folder_name, n>> \in made}
            /\ fate.kind = "clean" =>
                   /\ Len(nums) > 0
                   /\ nums[Len(nums)] = fate.num
            /\ fate.kind = "failed" => fate.num \notin Range(nums)
            /\ (pc = "ret" /\ callOutcome = "processed") =>
                   /\ i = message_count
                   /\ fate.num = message_count

\* the first of two messages was skipped, the second contributed its record
C1_Witness ==
    /\ pc = "ret"
    /\ message_count = 2
    /\ fate.num = 2
    /\ fate.kind = "clean"
    /\ Len(folder_emails) = 1
    /\ folder_emails[1].src_num = 2

(***************************************************************************)
(* C2: folder-level fault isolation.  A folder whose select or search      *)
(* failed returns no record and leaves the run going; whatever failed, the *)
(* inbox is selected before the folder phase ends, and a run in which no   *)
(* sent candidate contributed has tried all of them.                       *)
(***************************************************************************)
C2_FolderIsolation ==
    /\ (pc = "ret" /\ callOutcome \in {"select_failed", "search_failed"}) =>
           /\ folder_emails = <<>>
           /\ result = Pending
           /\ \A k \in 1..Len(all_emails) : all_emails[k].src_folder # folder_name
    /\ (PassedListing /\ pc \in AfterFolders) => InboxAttempts # {}
    /\ (SentPhaseOver /\ selectFailed /\ Contributing = {}) =>
           /\ Len(attempts) >= Len(sent_folders)
           /\ \A k \in 1..Len(sent_folders) : attempts[k] = sent_folders[k]

\* the first sent candidate could not be selected; the second one and the
\* inbox both contributed records
C2_Witness ==
    /\ pc = "build"
    /\ selectFailed
    /\ attempts = <<sent_folders[1], sent_folders[2], Inbox>>
    /\ \E k \in 1..Len(all_emails) :
           all_emails[k].src_folder = QuotedSent[2]
    /\ \E k \in 1..Len(all_emails) : all_emails[k].src_folder = Inbox

(***************************************************************************)
(* C3: when login and folder listing succeed, logout is called exactly     *)
(* once, after the last folder operation, and no session operation is      *)
(* issued after it.                                                        *)
(***************************************************************************)
C3_LogoutOnce ==
    /\ logouts <= 1
    /\ (PassedListing /\ pc \in {"build", "write", "done"}) => logouts = 1
    /\ logouts = 1 => (lastOp.op = "logout" /\ pc \in {"build", "write", "done"})
    /\ pc \in FolderPcs \cup {"sent_loop", "inbox", "logout"} => logouts = 0

\* a run with a failed select that ended with one logout and an output file
C3_Witness ==
    /\ pc = "done"
    /\ selectFailed
    /\ logouts = 1
    /\ result = OutputPath

(***************************************************************************)
(* C4: a failed connection or login is fatal: the run returns the failure  *)
(* sentinel, issues no list/select/search/fetch, builds no threads and     *)
(* writes no file.                                                         *)
(***************************************************************************)
C4_AuthFatal ==
    failedOp.op \in {"connect", "login"} =>
        /\ pc = "done"
        /\ result = Failure
        /\ lastOp.op = failedOp.op
        /\ attempts = <<>>
        /\ all_emails = <<>>
        /\ threads = None
        /\ ~fileWritten

\* login raised and _fetch_emails has returned
C4_Witness ==
    /\ failedOp = FailedAt("login", "exc")
    /\ pc = "done"
    /\ result = Failure

(***************************************************************************)
(* C5: a failed folder listing (non-OK status or exception) fails closed:  *)
(* the failure sentinel is returned, no folder is selected or searched and *)
(* no thread output is written.                                            *)
(***************************************************************************)
C5_ListFatal ==
    failedOp.op = "list" =>
        /\ pc = "done"
        /\ result = Failure
        /\ lastOp.op = "list"
        /\ attempts = <<>>
        /\ selected = None
        /\ all_emails = <<>>
        /\ threads = None
        /\ ~fileWritten

\* the listing returned a non-OK status and _fetch_emails has returned
C5_Witness ==
    /\ failedOp = FailedAt("list", "notok")
    /\ pc = "done"
    /\ result = Failure

(***************************************************************************)
(* C6: only fatal failures produce a failure outcome: a finished run       *)
(* returns the failure sentinel exactly when connection, login or folder   *)
(* listing failed, and otherwise a path to a written list of threads.      *)
(***************************************************************************)
C6_OnlyFatalFails ==
    pc = "done" =>
        IF failedOp.op \in {"connect", "login", "list"}
        THEN result = Failure
        ELSE /\ result = OutputPath
             /\ fileWritten
             /\ threads # None

(***************************************************************************)
(* C7: sent candidates are selected in the configured order; the one that  *)
(* contributes records is the last one selected, so at most one            *)
(* contributes; and the loop ends without a contribution only after all    *)
(* candidates were tried.                                                  *)
(***************************************************************************)
C7_SentOrder ==
    LET contributing == Contributing
    IN  /\ \A k \in 1..Len(attempts) :
               \/ k <= Len(sent_folders) /\ attempts[k] = sent_folders[k]
               \/ attempts[k] = Inbox
        /\ Cardinality(contributing) <= 1
        /\ \A k \in contributing : \A j \in SentAttempts : j <= k
        /\ (SentPhaseOver /\ contributing = {}) =>
               /\ Len(attempts) >= Len(sent_folders)
               /\ \A k \in 1..Len(sent_folders) : attempts[k] = sent_folders[k]

\* the first two candidates were selectable but yielded nothing, the third
\* yielded records, the fourth was never selected
C7_Witness ==
    /\ ~selectFailed
    /\ attempts = <<sent_folders[1], sent_folders[2], sent_folders[3], Inbox>>
    /\ Contributing = {3}

(***************************************************************************)
(* C8: the inbox is attempted exactly once in every run that passes login  *)
(* and folder listing, and only after the sent-folder attempts are over.   *)
(***************************************************************************)
C8_InboxOnce ==
    /\ Cardinality(InboxAttempts) <= 1
    /\ \A k \in InboxAttempts :
           /\ k = Len(attempts)
           /\ SentPhaseOver =>
                  \/ Contributing # {}
                  \/ SentAttempts = 1..Len(sent_folders)
    /\ (PassedListing /\ pc \in AfterFolders) => Cardinality(InboxAttempts) = 1

\* every sent candidate was tried, one could not be selected, none yielded
\* records, and the inbox was attempted
C8_Witness ==
    /\ pc = "logout"
    /\ selectFailed
    /\ Contributing = {}
    /\ Len(attempts) = Len(sent_folders) + 1
    /\ attempts[Len(attempts)] = Inbox

(***************************************************************************)
(* C9: the sequence handed to thread building is the sent batch in search  *)
(* order followed by the inbox batch in search order, with every produced  *)
(* record present once per folder it was fetched from (no dedup).          *)
(***************************************************************************)
C9_Accumulation ==
    (PassedListing /\ pc \in {"logout", "build", "write"}) =>
        LET tags == SrcTags(all_emails)
        IN  /\ Len(tags) = Cardinality(made)
            /\ Range(tags) = made
            /\ \A k, l \in 1..Len(tags) : k < l =>
                   \/ IsSentName(tags[k][1]) /\ tags[l][1] = Inbox
                   \/ tags[k][1] = tags[l][1] /\ tags[k][2] < tags[l][2]

\* the same message was fetched from a sent folder and from the inbox and
\* is handed to thread building twice
C9_Witness ==
    /\ pc = "build"
    /\ \E k, l \in 1..Len(all_emails) :
           /\ k < l
           /\ all_emails[k].message_id = all_emails[l].message_id
           /\ IsSentName(all_emails[k].src_folder)
           /\ all_emails[l].src_folder = Inbox

(***************************************************************************)
(* C10: folder processing is sequential over the one session: every search *)
(* and fetch is issued while the folder being processed is the selected    *)
(* one, and none is issued for a folder whose select failed.               *)
(***************************************************************************)
C10_Sequential ==
    /\ lastOp.op \in {"search", "fetch"} =>
           /\ lastOp.folder # ""
           /\ lastOp.sel = lastOp.folder
    /\ pc \in MessagePcs =>
           /\ selected = folder_name
           /\ session = "open"
    /\ (lastOp.op = "select" /\ selected = None) => pc \notin MessagePcs

\* a fetch in the inbox, after an earlier folder could not be selected and
\* another one contributed
C10_Witness ==
    /\ lastOp.op = "fetch"
    /\ caller = "inbox"
    /\ selectFailed
    /\ all_emails # <<>>

\* the message processed last was normalized into the last record of the
\* folder result
LastRecorded ==
    /\ fate.kind \in {"clean", "other"}
    /\ <<folder_name, fate.num>> \in made
    /\ Len(folder_emails) > 0
    /\ folder_emails[Len(folder_emails)].src_num = fate.num

(***************************************************************************)
(* C11: native thread id retrieval is best-effort.  A message for which    *)
(* the store returned no native thread id, and for which no content or     *)
(* flag retrieval and no normalization failed, has a record, and that      *)
(* record carries no native thread id; the record of a message carries a   *)
(* native thread id only if it is the id the store returned for that very  *)
(* message.                                                                *)
(***************************************************************************)
C11_NativeIdBestEffort ==
    (pc \in FolderPcs /\ fate.kind \in {"clean", "other"}) =>
        /\ nativeReply = Absent => LastRecorded
        /\ LastRecorded =>
              LET rec == folder_emails[Len(folder_emails)]
              IN  /\ nativeReply \in {Absent, Unasked} => rec.thread_id = None
                  /\ rec.thread_id # None => rec.thread_id = nativeReply

\* the places <<t, j>> of the thread list that hold the record rec
PlacesOf(rec, ts) ==
    {tj \in UNION {{<<t, j>> : j \in 1..Len(ts[t].messages)} : t \in 1..Len(ts)} :
        ts[tj[1]].messages[tj[2]] = rec}

(***************************************************************************)
(* C12: once the thread list is built, every record the fetch stage        *)
(* collected is in exactly one thread of it, at exactly one position.      *)
(***************************************************************************)
C12_ExactlyOneThread ==
    pc = "write" =>
        \A k \in 1..Len(all_emails) :
            Cardinality(PlacesOf(all_emails[k], threads)) = 1

\* the thread list has been built and the records are still at hand
Built == pc = "write"

Members(t) == {t.messages[j] : j \in 1..Len(t.messages)}
NativeIds(emails) ==
    {emails[k].thread_id : k \in 1..Len(emails)} \ {None}
WithNativeId(emails, id) ==
    {emails[k] : k \in {j \in 1..Len(emails) : emails[j].thread_id = id}}

(***************************************************************************)
(* C13: native-id tier precedence.  If at least one collected record       *)
(* carries a native thread id, the threads are exactly the groups of the   *)
(* id-carrying records by that id: one thread per native id, holding each  *)
(* record with that id once; a record without native id is in no thread,   *)
(* no thread has another key, and no subject group was formed.             *)
(***************************************************************************)
C13_NativePrecedence ==
    (Built /\ NativeIds(all_emails) # {}) =>
        /\ {threads[t].thread_id : t \in 1..Len(threads)} = NativeIds(all_emails)
        /\ Len(threads) = Cardinality(NativeIds(all_emails))
        /\ \A t \in 1..Len(threads) :
              /\ Members(threads[t]) = WithNativeId(all_emails, threads[t].thread_id)
              /\ Len(threads[t].messages) = Cardinality(Members(threads[t]))
        /\ \A k \in 1..Len(all_emails) :
              all_emails[k].thread_id = None => PlacesOf(all_emails[k], threads) = {}
        /\ ~subject_map.bound

\* A and its reply B carry no native id, N1 does: the result is N1's thread
C13_Witness ==
    /\ Built
    /\ Len(all_emails) = 3
    /\ all_emails[1].message_id = "<a>"
    /\ all_emails[2].in_reply_to = "<a>"
    /\ all_emails[3].thread_id = "1001"
    /\ Len(threads) = 1
    /\ threads[1].thread_id = "1001"
    /\ threads[1].total_messages = 1

ThreadKeys == {threads[t].thread_id : t \in 1..Len(threads)}
\* the keys a tier can give a thread
ReplyKeys == KnownIds(all_emails)
SubjectKeys == {"thread_" \o Format07d(n) : n \in HashValues}

(***************************************************************************)
(* C14: tier order.  All threads of a result are keyed by one tier; if a   *)
(* record has a native id the native tier alone produced the result; the   *)
(* reply-graph tier produced threads only if no record has a native id;    *)
(* and the subject tier ran exactly when no record has a native id and the *)
(* reply-graph tier produced no thread.                                    *)
(***************************************************************************)
C14_TierOrder ==
    Built =>
        /\ \/ ThreadKeys \subseteq NativeIds(all_emails)
           \/ ThreadKeys \subseteq ReplyKeys
           \/ ThreadKeys \subseteq SubjectKeys
        /\ NativeIds(all_emails) # {} =>
              /\ ThreadKeys # {}
              /\ ThreadKeys \subseteq NativeIds(all_emails)
        /\ ThreadKeys \cap ReplyKeys # {} => NativeIds(all_emails) = {}
        /\ subject_map.bound <=>
              /\ NativeIds(all_emails) = {}
              /\ ThreadKeys \cap ReplyKeys = {}
        /\ (subject_map.bound /\ all_emails # <<>>) =>
              /\ ThreadKeys # {}
              /\ ThreadKeys \subseteq SubjectKeys

\* R names itself as parent: the reply-graph tier finds a reply relation
\* but no root, so the subject tier groups the records
C14_Witness ==
    /\ Built
    /\ Len(all_emails) = 2
    /\ all_emails[1].in_reply_to = all_emails[1].message_id
    /\ all_emails[1].message_id # ""
    /\ subject_map.bound
    /\ Len(threads) >= 1
    /\ ThreadKeys \subseteq SubjectKeys

\* a record as the output file shows it (without the history fields)
Content(rec) ==
    Record(rec.message_id, rec.timestamp, rec.subject, rec.in_reply_to,
           rec.references, rec.thread_id)
Contents(emails) == {Content(emails[k]) : k \in 1..Len(emails)}
\* the collected records are exactly the records of S, each once
CollectedExactly(S) ==
    /\ Len(all_emails) = Cardinality(S)
    /\ Contents(all_emails) = S
ThreadsKeyed(id) == {t \in 1..Len(threads) : threads[t].thread_id = id}

GroupsOf(k) ==
    {g \in 1..Len(subject_map.groups) :
        \E j \in 1..Len(subject_map.groups[g].msgs) :
            subject_map.groups[g].msgs[j] = all_emails[k]}

\* number of blank tokens a subject starts with
LeadingBlanks(s) ==
    CHOOSE n \in 0..Len(s) :
        /\ \A k \in 1..n : s[k] \in {" ", "\t"}
        /\ n < Len(s) => s[n + 1] \notin {" ", "\t"}
\* the subject without one leading Re:/Fwd: (any case) and the whitespace
\* that directly follows it
WithoutOnePrefix(s) ==
    IF Len(s) > 0 /\ s[1] \in {"Re:", "RE:", "re:", "Fwd:", "FWD:", "fwd:"}
    THEN SubSeq(s, 2 + LeadingBlanks(Tail(s)), Len(s))
    ELSE s

(***************************************************************************)
(* C16: subject tier.  Every collected record is in exactly one subject    *)
(* group, and two records are in the same group if and only if their       *)
(* subjects are equal after removing at most one leading Re:/Fwd: prefix   *)
(* (any case) with the whitespace directly after it: "Re: Quarterly Sync", *)
(* "Fwd: Quarterly Sync" and "RE:Quarterly Sync" join "Quarterly Sync",    *)
(* while "Quarterly  Sync" (two blanks) and "Re: Re: Quarterly Sync" stay  *)
(* apart from it.                                                          *)
(***************************************************************************)
C16_SubjectGroups ==
    (Built /\ subject_map.bound) =>
        /\ \A k \in 1..Len(all_emails) : Cardinality(GroupsOf(k)) = 1
        /\ \A k, l \in 1..Len(all_emails) :
              GroupsOf(k) = GroupsOf(l) <=>
                  WithoutOnePrefix(all_emails[k].subject)
                      = WithoutOnePrefix(all_emails[l].subject)
        /\ \A k, l \in 1..Len(all_emails) :
              all_emails[k].subject = Quarterly =>
                  /\ all_emails[l].subject \in
                         {<<"Re:", " ">> \o Quarterly, <<"Fwd:", " ">> \o Quarterly,
                          <<"RE:">> \o Quarterly}
                       => GroupsOf(k) = GroupsOf(l)
                  /\ all_emails[l].subject \in
                         {<<"Quarterly", " ", " ", "Sync">>,
                          <<"Re:", " ", "Re:", " ">> \o Quarterly}
                       => GroupsOf(k) # GroupsOf(l)

\* "Re: Quarterly Sync", its stacked-prefix variant and "Fwd: Quarterly
\* Sync" were grouped by subject: two groups
C16_Witness ==
    /\ Built
    /\ subject_map.bound
    /\ Len(all_emails) = 3
    /\ all_emails[1].subject = <<"Re:", " ">> \o Quarterly
    /\ all_emails[2].subject = <<"Re:", " ", "Re:", " ">> \o Quarterly
    /\ all_emails[3].subject = <<"Fwd:", " ">> \o Quarterly
    /\ Len(subject_map.groups) = 2
    /\ GroupsOf(1) = GroupsOf(3)
    /\ GroupsOf(1) # GroupsOf(2)

\* the sequence emails rearranged by the permutation sigma of its indices
Permuted(emails, sigma) == [k \in 1..Len(emails) |-> emails[sigma[k]]]
\* the threads of a thread list, each with its id and its messages in order
ThreadSet(ts) ==
    {[thread_id |-> ts[t].thread_id,
      messages  |-> [j \in 1..Len(ts[t].messages) |-> Content(ts[t].messages[j])]] :
        t \in 1..Len(ts)}
\* the thread sets the thread building can give for emails
Outcomes(emails) ==
    {ThreadSet(ThreadList(emails, order, h)) :
        order \in Orders(Roots(emails)),
        h \in HashFunctions(NormalizedSubjects(emails))}

(***************************************************************************)
(* C17: invariance under reordering.  For every permutation of the         *)
(* collected record sequence, thread building can give the set of threads  *)
(* it gave for the sequence itself: the same thread ids, each with the     *)
(* same messages in the same order.  (Stated for the results in which no   *)
(* two subject groups were given the same synthetic id.)                   *)
(***************************************************************************)
C17_ReorderInvariant ==
    (Built /\ (subject_map.bound => Len(threads) = Len(subject_map.groups))) =>
        \A sigma \in Orders(1..Len(all_emails)) :
            ThreadSet(threads) \in Outcomes(Permuted(all_emails, sigma))

\* timestamp of the most recent message of a thread
LatestTimestamp(t) ==
    CHOOSE m \in {t.messages[j].timestamp : j \in 1..Len(t.messages)} :
        \A j \in 1..Len(t.messages) : t.messages[j].timestamp <= m

(***************************************************************************)
(* C18: thread order.  In the thread list, the most recent message of a    *)
(* thread is never older than the most recent message of the thread that   *)
(* follows it.                                                             *)
(***************************************************************************)
C18_ThreadOrder ==
    Built =>
        \A t \in 1..Len(threads) - 1 :
            LatestTimestamp(threads[t]) >= LatestTimestamp(threads[t + 1])

\* three single-message threads collected with timestamps 300, 100, 200
\* come out as 300, 200, 100
C18_Witness ==
    /\ Built
    /\ Len(all_emails) = 3
    /\ all_emails[1].timestamp = 300
    /\ all_emails[2].timestamp = 100
    /\ all_emails[3].timestamp = 200
    /\ Len(threads) = 3
    /\ LatestTimestamp(threads[1]) = 300
    /\ LatestTimestamp(threads[2]) = 200
    /\ LatestTimestamp(threads[3]) = 100

(***************************************************************************)
(* C19: message order.  In every thread of the thread list no message is   *)
(* followed by an older one, whichever tier grouped the records and        *)
(* whatever order they were collected in.                                  *)
(***************************************************************************)
C19_MessageOrder ==
    Built =>
        \A t \in 1..Len(threads) :
            \A j \in 1..Len(threads[t].messages) - 1 :
                threads[t].messages[j].timestamp
                    <= threads[t].messages[j + 1].timestamp

\* two records of one thread were collected newest first and come out
\* oldest first
C19_Witness ==
    /\ Built
    /\ Len(all_emails) = 2
    /\ all_emails[1].timestamp > all_emails[2].timestamp
    /\ Len(threads) = 1
    /\ threads[1].messages = <<all_emails[2], all_emails[1]>>

(***************************************************************************)
(* C20: reply target.  In every thread of the thread list,                 *)
(* reply_to_message_id is the message id of the last message, and no       *)
(* message of the thread is more recent than that one.                     *)
(***************************************************************************)
C20_ReplyTarget ==
    Built =>
        \A t \in 1..Len(threads) :
            LET last == threads[t].messages[Len(threads[t].messages)]
            IN  /\ threads[t].reply_to_message_id = last.message_id
                /\ last.timestamp = LatestTimestamp(threads[t])
                /\ threads[t].total_messages = Len(threads[t].messages)

\* a thread of three messages whose most recent one was collected first
C20_Witness ==
    /\ Built
    /\ Len(all_emails) = 3
    /\ Len(threads) = 1
    /\ all_emails[1].timestamp = 300
    /\ all_emails[2].timestamp = 200
    /\ all_emails[3].timestamp = 100
    /\ all_emails[1].message_id # all_emails[3].message_id
    /\ threads[1].reply_to_message_id = all_emails[1].message_id

RECURSIVE SumTotals(_)
SumTotals(ts) ==
    IF ts = <<>> THEN 0 ELSE Head(ts).total_messages + SumTotals(Tail(ts))

(***************************************************************************)
(* C21: message counts.  In every thread of the thread list total_messages *)
(* is the length of its messages sequence and at least 1, and the counts   *)
(* of all threads together do not exceed the number of collected records.  *)
(***************************************************************************)
C21_TotalMessages ==
    Built =>
        /\ \A t \in 1..Len(threads) :
              /\ threads[t].total_messages = Len(threads[t].messages)
              /\ threads[t].total_messages >= 1
        /\ SumTotals(threads) <= Len(all_emails)

\* three collected records, one of them in no thread: a thread of two
C21_Witness ==
    /\ Built
    /\ Len(all_emails) = 3
    /\ Len(threads) = 1
    /\ threads[1].total_messages = 2
    /\ SumTotals(threads) = 2

\* the labels the members of a thread carry
MemberLabels(t) ==
    {lab \in {"FLAGS (\\Seen", "SENT", "INBOX"} :
        \E j \in 1..Len(t.messages) :
            \E n \in 1..Len(t.messages[j].labels) : t.messages[j].labels[n] = lab}

(***************************************************************************)
(* C22: thread labels.  In every thread of the thread list, a label is in  *)
(* the thread's labels if and only if one of its messages carries it.      *)
(***************************************************************************)
C22_ThreadLabels ==
    Built =>
        \A t \in 1..Len(threads) :
            /\ threads[t].labels \subseteq {"FLAGS (\\Seen", "SENT", "INBOX"}
            /\ threads[t].labels = MemberLabels(threads[t])

\* a thread of a seen sent message and an inbox message whose flags could
\* not be read
C22_Witness ==
    /\ Built
    /\ Len(threads) = 1
    /\ threads[1].total_messages = 2
    /\ threads[1].messages[1].labels = <<"FLAGS (\\Seen", "SENT">>
    /\ threads[1].messages[2].labels = <<"INBOX">>
    /\ threads[1].labels = {"FLAGS (\\Seen", "SENT", "INBOX"}
(***************************************************************************)
(* C23 .. C26: normalization of one message                                *)
(***************************************************************************)
\* the record normalization produced last
LastRecord == folder_emails[Len(folder_emails)]

\* C23: every record produced by normalization has a numeric timestamp: the
\* instant of the Date header when it parses, and otherwise (header absent
\* or unparsable) the current instant; the record is produced all the same
\* and the folder call goes on to its normal end.
C23_TimestampDefault ==
    LastRecorded =>
        /\ LastRecord.timestamp \in Nat
        /\ fate.raw.date.hdr = "ok" => LastRecord.timestamp = fate.raw.date.at
        /\ fate.raw.date.hdr \in {"bad", "none"} => LastRecord.timestamp \in Clock
        /\ (pc = "ret" /\ fate.num = message_count) =>
               /\ callOutcome = "processed"
               /\ result = Pending

\* a message with an unparsable Date header was recorded with the clock's
\* instant, and the call returned normally
C23_Witness ==
    /\ LastRecorded
    /\ fate.raw.date.hdr = "bad"
    /\ LastRecord.timestamp = 901
    /\ pc = "ret"
    /\ callOutcome = "processed"

\* C24: the labels of a record are its flags followed by at most one folder
\* marker: SENT for a record collected from a sent candidate, INBOX for one
\* collected from INBOX, never both.
C24_FolderMarker ==
    LastRecorded =>
        LET labels == LastRecord.labels
            marker == IF \E k \in 1..Len(sent_folders) :
                             LastRecord.src_folder = QuotedSent[k]
                      THEN "SENT"
                      ELSE IF LastRecord.src_folder = Inbox THEN "INBOX"
                      ELSE "none"
        IN /\ marker # "none"
           /\ labels \in {<<marker>>, SeenFlags \o <<marker>>}
           /\ ~(\E a, b \in 1..Len(labels) :
                    labels[a] = "SENT" /\ labels[b] = "INBOX")

\* a flagged record of the last sent candidate carries the flags, then SENT
C24_Witness ==
    /\ LastRecorded
    /\ LastRecord.src_folder = QuotedSent[Len(sent_folders)]
    /\ LastRecord.labels = SeenFlags \o <<"SENT">>

\* the text a source holds once decoded, "" if it holds none or fails
Decoded(source, ctype) ==
    CASE source \in {"text", "bare"} ->
             IF ctype = "text/html" THEN "html text" ELSE "plain text"
      [] source = "dirty" -> "raw html"
      [] OTHER -> ""

\* C26: the body of a record is the text of the last text/html part when that
\* decodes to non-empty text, otherwise the text of the last text/plain
\* part; a single-part message gives its decoded payload; a source that
\* fails or is absent is passed over, and the body is the empty string when
\* every source fails or is absent, for multipart and single-part alike.
C26_BodyFallback ==
    LastRecorded =>
        LET mime == fate.raw.mime
        IN LastRecord.body =
               IF mime.multipart
               THEN IF Decoded(mime.html, "text/html") # ""
                    THEN Decoded(mime.html, "text/html")
                    ELSE Decoded(mime.text, "text/plain")
               ELSE Decoded(mime.payload, mime.ctype)

(***************************************************************************)
(* C25: the search predicate                                               *)
(***************************************************************************)
\* C25: the search issued in a selected folder is "ALL" exactly when no time
\* window is configured, and otherwise SINCE the clock's day minus
\* num_prev_days days, a window of 0 days included; the window, and with it
\* the kind of predicate, is the same for every folder of the run.
C25_SearchPredicate ==
    /\ [](lastOp.op = "search" =>
            /\ lastOp.arg = "ALL" <=> ~num_prev_days.given
            /\ num_prev_days.given =>
                   \E today \in Today :
                       lastOp.arg = "SINCE \""
                                    \o Calendar[today - num_prev_days.days]
                                    \o "\"")
    /\ [][num_prev_days' = num_prev_days]_vars

\* with a window of 0 days the inbox, searched after every sent candidate,
\* is searched since the clock's day
C25_Witness ==
    /\ num_prev_days = Window(0)
    /\ lastOp.op = "search"
    /\ lastOp.folder = Inbox
    /\ Len(attempts) = Len(sent_folders) + 1
    /\ lastOp.arg = "SINCE \"04-Nov-2026\""

(***************************************************************************)
(* C27: the reply-graph traversal                                          *)
(***************************************************************************)
\* the places <<thread, position>> at which a message id occurs
PlacesOfId(id) ==
    {<<t, j>> \in (1..Len(threads)) \X (1..MaxRecords + 1) :
        /\ j <= Len(threads[t].messages)
        /\ threads[t].messages[j].message_id = id}

\* the threads were built by the reply-graph tier
ReplyBuilt ==
    /\ Built
    /\ NativeIds(all_emails) = {}
    /\ ~subject_map.bound

\* the number of records a thread map holds
RECURSIVE Placed(_)
Placed(tm) ==
    IF tm = <<>> THEN 0 ELSE Len(Head(tm).msgs) + Placed(Tail(tm))

\* C27: the traversal of the reply graph returns on every reference graph,
\* in whatever order the roots are taken: it has a result, which places at
\* most one record per known message id; and in the thread list built from
\* it each message id occurs in at most one thread and at most once in it.
C27_TraversalTerminates ==
    /\ pc = "build" =>
           \A order \in Orders(Roots(all_emails)) :
               Placed(ReplyTier(all_emails, order))
                   <= Cardinality(KnownIds(all_emails))
    /\ ReplyBuilt =>
           \A id \in KnownIds(all_emails) : Cardinality(PlacesOfId(id)) <= 1

\* A with its reply F (which names A twice and refers to G) and G, the reply
\* to F: one thread holds A, F and G once each
C27_Witness ==
    /\ ReplyBuilt
    /\ Contents(all_emails) = {Content(RecA), Content(RecF), Content(RecG)}
    /\ Len(all_emails) = 3
    /\ Len(threads) = 1
    /\ threads[1].thread_id = "<a>"
    /\ threads[1].total_messages = 3

(***************************************************************************)
(* C28: subject-tier thread ids                                            *)
(***************************************************************************)
\* C28: when the subject tier built the threads, every thread id is
\* "thread_" followed by 7 decimal digits, and the id of a subject group is
\* a function of its normalized subject alone: whatever hash function a
\* build of the same records uses (the same run or another), the group's
\* records are in the thread with the id this result gave the group.
C28_SubjectIdDeterministic ==
    (Built /\ subject_map.bound) =>
        /\ ThreadKeys \subseteq SubjectKeys
        /\ \A h \in HashFunctions(NormalizedSubjects(all_emails)) :
               \A g \in 1..Len(subject_map.groups) :
                   \E t \in 1..Len(threads) :
                       /\ threads[t].thread_id =
                              SubjectThreadId(subject_map.groups[g].key, h)
                       /\ \A m \in 1..Len(subject_map.groups[g].msgs) :
                              subject_map.groups[g].msgs[m] \in Members(threads[t])

(***************************************************************************)
(* C29, C30: the session and servers other than imap.gmail.com             *)
(***************************************************************************)
\* C29: no session is leaked: whenever _fetch_emails has returned after a
\* successful login, logout was called on the session, also when the folder
\* listing was not OK and when an exception was raised after the login.
C29_NoSessionLeak ==
    (pc = "done" /\ session # "none") => logouts >= 1

\* C30: on a server other than imap.gmail.com no X-GM-THRID fetch is
\* issued, and a message is left without a record only if fetching or
\* normalizing it failed: a message whose content was retrieved is not
\* dropped, so the records of such a run reach the thread building.
C30_OtherServerRecords ==
    imap_server # Gmail =>
        /\ ~(lastOp.op = "fetch" /\ lastOp.arg = "(X-GM-THRID)")
        /\ fate.kind = "other" => <<folder_name, fate.num>> \in made

====
